---- MODULE Spec2Model ----
(***************************************************************************)
(* rag-builder: document load pipeline (backend API, load worker, deletion *)
(* worker, SQS queues, DynamoDB tables, LanceDB table) and the chat agent  *)
(* (retrieval tool, conversation trimming and resuming, stream handler).   *)
(*                                                                         *)
(* Strings that the code builds or matches character by character (chunk   *)
(* ids, the LIKE filter, the tool output and its delimiter) are sequences  *)
(* of one-character strings.                                               *)
(***************************************************************************)
EXTENDS Integers, Sequences, FiniteSets, TLC

\* ------------------------------------------------------------------ bounds
MaxLoads == 1
MaxChunks == 11
MaxIdLen == 2
MaxRows == 1
MaxHist == 4
MaxWindow == 3
MaxApiRecords == 1
MaxHits == 2
MaxTokens == 5

\* ------------------------------------------------------- program constants
max_receive_count == 2
QueryLimit == 10
MAX_MEMORY_WINDOW == 10

None == "none"

\* --------------------------------------------------------------- strings
DigitChars == <<"0", "1", "2", "3", "4", "5", "6", "7", "8", "9">>

RECURSIVE Digits(_)
\* decimal rendering of a natural number, most significant digit first
Digits(i) ==
    IF i < 10 THEN <<DigitChars[i + 1]>>
    ELSE Digits(i \div 10) \o <<DigitChars[(i % 10) + 1]>>

RECURSIVE ZeroPad(_, _)
\* left-pad with "0" up to a minimum width (never truncates)
ZeroPad(s, width) ==
    IF Len(s) >= width THEN s ELSE ZeroPad(<<"0">> \o s, width)

\* f"{i:04d}"
Fmt04d(i) == ZeroPad(Digits(i), 4)

\* a chunk id without the zero padding
ChunkId_unpadded(load_id, i) == load_id \o <<"-">> \o Digits(i)

\* f"{load_id}-{i:04d}"
ChunkId(load_id, i) == load_id \o <<"-">> \o Fmt04d(i)

\* ids=[f"{self.load_id}-{i:04d}" for i in range(len(self._documents))]
ChunkIds(load_id, n) == [k \in 1..n |-> ChunkId(load_id, k - 1)]

RECURSIVE Like(_, _)
\* SQL LIKE: "%" matches any run of characters, "_" any single character
Like(pat, s) ==
    IF pat = <<>> THEN s = <<>>
    ELSE IF Head(pat) = "%"
         THEN Like(Tail(pat), s) \/ (s # <<>> /\ Like(pat, Tail(s)))
         ELSE /\ s # <<>>
              /\ (Head(pat) = "_" \/ Head(pat) = Head(s))
              /\ Like(Tail(pat), Tail(s))

\* a filter that lacks the trailing "%"
DeleteFilter_exact(document_id, id) == Like(document_id, id)

\* f"id like '{self.document_id}%'"
DeleteFilter(document_id, id) == Like(document_id \o <<"%">>, id)

StartsWith(s, p) == Len(s) >= Len(p) /\ SubSeq(s, 1, Len(p)) = p

\* ----------------------------------------------------------------- uuids
\* uuid.uuid4() yields canonical strings of one fixed length; two characters
\* of a two-letter alphabet stand for the 36 of a real UUID.
UuidChars == {"a", "b"}
Uuids == {<<x, y>> : x \in UuidChars, y \in UuidChars}

\* uuid.uuid4(): a value not returned before. Ids are only compared for
\* equality and as prefixes of chunk ids, and all have one length, so which
\* unused value is drawn makes no difference; the first unused one is taken.
uuid4(used) == CHOOSE u \in Uuids \ used : TRUE

\* the documents behind the urls a load request may name: a PDF with a title
\* that splits into MaxChunks chunks, one without a title that splits into
\* one chunk, and one without extractable text
Urls == {"u1", "u2", "u3"}
NumChunks(url) == IF url = "u1" THEN MaxChunks ELSE IF url = "u2" THEN 1 ELSE 0
HasTitle(url) == url = "u1"

\* the url of a message whose source is not "pdf"
TxtUrl == "txt"

\* ------------------------------------------------------------------ state
VARIABLES
    loadHistory,     \* DynamoDB document_load_history_table: load_id -> item
    apiPending,      \* POST /documents/load requests between send_message and put_item
    loadQueue,       \* document_load_queue messages with the state of their invocation
    tableExists,     \* LanceDB table "vectorstore" exists
    rows,            \* rows of the "vectorstore" table, in insertion order
    ftsIndex,        \* full-text index text_idx: "absent", "building" or "ready"
    documents,       \* DynamoDB document_table items
    deletionQueue,   \* document_deletion_queue messages
    usedUuids,       \* values uuid.uuid4() has returned so far
    postLog,         \* history: POST /documents requests (id sent, id stored)
    deletedOrigins,  \* history: load ids whose document got a 204 from DELETE
    rowsBefore,      \* history: rows before the deleter ran
    messages,        \* agent state["messages"], as the message types
    messagesBefore,  \* history: messages before delete_messages ran
    window,          \* the value of MAX_MEMORY_WINDOW
    trimmed,         \* TRUE once delete_messages has run on messages
    ftsLog,          \* history: the index calls made on the table, in order
    response,        \* the answer to the last PATCH or DELETE of an API client
    toolResult,      \* the last call of retrieve_context: query and outcome
    chatPc,          \* position of the agent in the turn it is serving
    retrieved,       \* a tool output and what its consumer splits it into
    stream           \* the stream handler of one chat message

vars == <<loadHistory, apiPending, loadQueue, tableExists, rows, ftsIndex,
          documents, deletionQueue, usedUuids, postLog, deletedOrigins,
          rowsBefore, messages, messagesBefore, window, trimmed, ftsLog,
          response, toolResult, chatPc, retrieved, stream>>

pipelineVars == <<loadHistory, apiPending, loadQueue, tableExists, rows,
                  ftsIndex, documents, deletionQueue, usedUuids, postLog,
                  deletedOrigins>>
deleterVars == <<rowsBefore>>
chatVars == <<messages, messagesBefore, window, trimmed>>
indexVars == <<ftsLog>>
apiVars == <<response>>
toolVars == <<toolResult>>
turnVars == <<chatPc>>
splitVars == <<retrieved>>
streamVars == <<stream>>
otherVars == <<deleterVars, chatVars, indexVars, apiVars, toolVars, turnVars,
               splitVars, streamVars>>

\* ---------------------------------------------------- backend API (tables)
\* class Source(str, Enum)
Source == {"pdf"}

\* class Status(str, Enum)
Status == {"pending", "in_progress", "completed", "failed"}

\* DocumentLoad(load_id, source, url, ttl) with the model's defaults
DocumentLoad(source, url) ==
    [source |-> source, url |-> url, status |-> "pending",
     started_at |-> None, completed_at |-> None, error_details |-> None]

\* UpdateDocumentLoad: status plus the optional fields
UpdateDocumentLoad(status, started_at, completed_at, error_details) ==
    [status |-> status, started_at |-> started_at,
     completed_at |-> completed_at, error_details |-> error_details]

\* model_dump(exclude_none=True): the keys the update carries
update_data(update_values) ==
    {k \in DOMAIN update_values : update_values[k] # None}

\* retrieve_context not called yet
NoResult == [query |-> None, kind |-> "none", queried |-> FALSE,
             output |-> <<>>]

\* no tool output split yet
NoRetrieved == [hits |-> <<>>, pc |-> "none", output |-> <<>>,
                contexts |-> <<>>]

\* no chat message being served
NoStream == [pc |-> "none"]

\* no request answered yet
NoResponse == [op |-> "none", id |-> <<>>, code |-> 0]

\* an update_item without the ConditionExpression: it creates a missing item
update_load_upsert(hist, load_id, update_values) ==
    IF load_id \notin DOMAIN hist
    THEN (load_id :> [k \in update_data(update_values) |-> update_values[k]])
            @@ hist
    ELSE [hist EXCEPT ![load_id] =
            [k \in DOMAIN @ |->
                IF k \in update_data(update_values)
                THEN update_values[k] ELSE @[k]]]

\* PATCH /documents/load/{load_id}: SET of the given keys when the item
\* exists (ConditionExpression), 404 and no write otherwise
update_load(hist, load_id, update_values) ==
    IF load_id \notin DOMAIN hist
    THEN hist
    ELSE [hist EXCEPT ![load_id] =
            [k \in DOMAIN @ |->
                IF k \in update_data(update_values)
                THEN update_values[k] ELSE @[k]]]

\* PATCH /documents/load/{load_id}: 200, or 404 on
\* ConditionalCheckFailedException
update_load_status(hist, load_id) ==
    IF load_id \notin DOMAIN hist THEN 404 ELSE 200

\* POST /documents: the item put in document_table for a request carrying
\* (document_id, title, url); CreateDocumentRequest has title and url only
create_document(req, new_uuid) ==
    [document_id |-> new_uuid, title |-> req.title, url |-> req.url]

\* ------------------------------------------------------------- load worker
NewMessage(load_id, source, url) ==
    [load_id |-> load_id, source |-> source, url |-> url,
     receives |-> 0, pc |-> "queued", docs |-> <<>>, sent |-> <<>>,
     posts |-> 0, passed_ids |-> <<>>, raised |-> None, outcome |-> None]

Replace(S, old, new) == (S \ {old}) \cup {new}

\* repr(e): the exception's class name and its arguments in parentheses
repr(e) == e \o "()"

\* the invocation ends with an exception: SQS makes the message visible again
Raises(m, exc) ==
    [NewMessage(m.load_id, m.source, m.url) EXCEPT
        !.receives = m.receives, !.outcome = exc]

\* self._documents[0].metadata["title"], "Unknown" on KeyError
doc_title(docs) ==
    IF "title" \in DOMAIN docs[1].metadata
    THEN docs[1].metadata["title"] ELSE "Unknown"

\* doc.metadata.update({"url": self.url}) for every chunk
add_extra_metadata(docs, url) ==
    [k \in DOMAIN docs |->
        [docs[k] EXCEPT !.metadata = ("url" :> url) @@ @]]

\* the chunks RecursiveCharacterTextSplitter yields for a fetched document
SplitDocuments(url, n, has_title) ==
    [k \in 1..n |->
        [text |-> <<url, k>>,
         metadata |-> IF has_title THEN ("title" :> "T") ELSE <<>>]]

\* rows appended by add_documents(documents, ids=ids)
NewRows(docs, ids) ==
    [k \in DOMAIN docs |->
        [id |-> ids[k], text |-> docs[k].text, metadata |-> docs[k].metadata]]

\* SQS hands a visible message to the Lambda function (batch_size=1)
Receive(m) ==
    /\ m.pc = "queued"
    /\ m.receives < max_receive_count
    /\ loadQueue' = Replace(loadQueue, m,
            [NewMessage(m.load_id, m.source, m.url) EXCEPT
                !.receives = m.receives + 1, !.pc = "handler"])
    /\ UNCHANGED otherVars
    /\ UNCHANGED <<loadHistory, apiPending, tableExists, rows, ftsIndex,
                   documents, deletionQueue, usedUuids, postLog,
                   deletedOrigins>>

\* a message received max_receive_count times goes to the dead-letter queue
MoveToDlq(m) ==
    /\ m.pc = "queued"
    /\ m.receives >= max_receive_count
    /\ loadQueue' = Replace(loadQueue, m, [m EXCEPT !.pc = "dlq"])
    /\ UNCHANGED otherVars
    /\ UNCHANGED <<loadHistory, apiPending, tableExists, rows, ftsIndex,
                   documents, deletionQueue, usedUuids, postLog,
                   deletedOrigins>>

\* a handler that records an unsupported source as a failed load
handler_marks_failed(m) ==
    /\ m.pc = "handler"
    /\ loadQueue' = Replace(loadQueue, m,
            IF m.source = "pdf"
            THEN [m EXCEPT !.pc = "mark_in_progress"]
            ELSE [m EXCEPT !.pc = "mark_failed",
                           !.raised = "NotImplementedError"])
    /\ UNCHANGED otherVars
    /\ UNCHANGED <<loadHistory, apiPending, tableExists, rows, ftsIndex,
                   documents, deletionQueue, usedUuids, postLog,
                   deletedOrigins>>

\* handler: match load_spec["source"]
handler(m) ==
    /\ m.pc = "handler"
    /\ loadQueue' = Replace(loadQueue, m,
            IF m.source = "pdf"
            THEN [m EXCEPT !.pc = "mark_in_progress"]
            ELSE Raises(m, "NotImplementedError"))
    /\ UNCHANGED otherVars
    /\ UNCHANGED <<loadHistory, apiPending, tableExists, rows, ftsIndex,
                   documents, deletionQueue, usedUuids, postLog,
                   deletedOrigins>>

\* PATCH status in_progress with started_at
mark_in_progress(m) ==
    /\ m.pc = "mark_in_progress"
    /\ loadHistory' = update_load(loadHistory, m.load_id,
            UpdateDocumentLoad("in_progress", "ts", None, None))
    /\ loadQueue' = Replace(loadQueue, m,
            [m EXCEPT !.pc = "load_and_split",
                      !.sent = Append(@, "in_progress")])
    /\ UNCHANGED otherVars
    /\ UNCHANGED <<apiPending, tableExists, rows, ftsIndex, documents,
                   deletionQueue, usedUuids, postLog, deletedOrigins>>

\* a fetch whose error leaves load_document as an exception
load_and_split_documents_propagates(m) ==
    /\ m.pc = "load_and_split"
    /\ \/ loadQueue' = Replace(loadQueue, m,
                [m EXCEPT !.pc = "add_documents",
                          !.docs = SplitDocuments(m.url, NumChunks(m.url),
                                                  HasTitle(m.url))])
       \/ loadQueue' = Replace(loadQueue, m, Raises(m, "fetch"))
    /\ UNCHANGED otherVars
    /\ UNCHANGED <<loadHistory, apiPending, tableExists, rows, ftsIndex,
                   documents, deletionQueue, usedUuids, postLog,
                   deletedOrigins>>

\* download the PDF and split it; an error goes to the except branch
load_and_split_documents(m) ==
    /\ m.pc = "load_and_split"
    /\ \/ loadQueue' = Replace(loadQueue, m,
                [m EXCEPT !.pc = "add_documents",
                          !.docs = SplitDocuments(m.url, NumChunks(m.url),
                                                  HasTitle(m.url))])
       \/ loadQueue' = Replace(loadQueue, m,
                [m EXCEPT !.pc = "mark_failed", !.raised = "fetch"])
    /\ UNCHANGED otherVars
    /\ UNCHANGED <<loadHistory, apiPending, tableExists, rows, ftsIndex,
                   documents, deletionQueue, usedUuids, postLog,
                   deletedOrigins>>

\* The mode in which the store library's add_documents writes to a table
\* that exists is not set by the loader (LanceDB(uri=..., embedding=...))
\* and the library is not part of the source: either it appends the rows or
\* it replaces the table's rows with them.
AddModes == {"append", "overwrite"}

\* a run that goes on to the index step when add_documents raised
add_documents_then_index(m) ==
    /\ m.pc = "add_documents"
    /\ \/ LET docs == add_extra_metadata(m.docs, m.url)
              ids == ChunkIds(m.load_id, Len(docs))
          IN /\ \E mode \in AddModes :
                    rows' = IF mode = "append"
                            THEN rows \o NewRows(docs, ids)
                            ELSE NewRows(docs, ids)
             /\ tableExists' = TRUE
             /\ loadQueue' = Replace(loadQueue, m,
                    [m EXCEPT !.pc = "fts_check", !.docs = docs,
                              !.passed_ids = ids])
       \/ /\ loadQueue' = Replace(loadQueue, m,
                [m EXCEPT !.pc = "fts_check", !.raised = "add_documents"])
          /\ UNCHANGED <<rows, tableExists>>
    /\ UNCHANGED otherVars
    /\ UNCHANGED <<loadHistory, apiPending, ftsIndex, documents,
                   deletionQueue, usedUuids, postLog, deletedOrigins>>

\* _add_extra_metadata, then add_documents with the chunk ids
add_documents(m) ==
    /\ m.pc = "add_documents"
    /\ \/ LET docs == add_extra_metadata(m.docs, m.url)
              ids == ChunkIds(m.load_id, Len(docs))
          IN /\ \E mode \in AddModes :
                    rows' = IF mode = "append"
                            THEN rows \o NewRows(docs, ids)
                            ELSE NewRows(docs, ids)
             /\ tableExists' = TRUE
             /\ loadQueue' = Replace(loadQueue, m,
                    [m EXCEPT !.pc = "fts_check", !.docs = docs,
                              !.passed_ids = ids])
       \/ /\ loadQueue' = Replace(loadQueue, m,
                [m EXCEPT !.pc = "mark_failed", !.raised = "add_documents"])
          /\ UNCHANGED <<rows, tableExists>>
    /\ UNCHANGED otherVars
    /\ UNCHANGED <<loadHistory, apiPending, ftsIndex, documents,
                   deletionQueue, usedUuids, postLog, deletedOrigins>>

\* a check that never finds the index
fts_check_always_creates(m) ==
    /\ m.pc = "fts_check"
    /\ loadQueue' = Replace(loadQueue, m,
            IF ~tableExists
            THEN [m EXCEPT !.pc = "mark_failed", !.raised = "fts_index"]
            ELSE [m EXCEPT !.pc = "fts_create"])
    /\ ftsLog' = IF ~tableExists THEN ftsLog
                 ELSE Append(ftsLog, "stats_none")
    /\ UNCHANGED <<splitVars, streamVars, deleterVars, chatVars, apiVars, toolVars, turnVars>>
    /\ UNCHANGED <<loadHistory, apiPending, tableExists, rows, ftsIndex,
                   documents, deletionQueue, usedUuids, postLog,
                   deletedOrigins>>

\* table.index_stats("text_idx") is not None: an index that is built is
\* found and one that was never created is not. Whether the store shows by
\* name an index whose build is still running is the store library's
\* behaviour and not set by the loader; both answers are kept.
index_stats(idx) ==
    IF idx = "absent" THEN {FALSE}
    ELSE IF idx = "ready" THEN {TRUE} ELSE BOOLEAN

\* _create_fts_index_if_not_exists: open_table and index_stats
fts_check(m) ==
    /\ m.pc = "fts_check"
    /\ IF ~tableExists
       THEN /\ loadQueue' = Replace(loadQueue, m,
                    [m EXCEPT !.pc = "mark_failed", !.raised = "fts_index"])
            /\ ftsLog' = ftsLog
       ELSE \E found \in index_stats(ftsIndex) :
            /\ loadQueue' = Replace(loadQueue, m,
                    IF found THEN [m EXCEPT !.pc = "mark_completed"]
                             ELSE [m EXCEPT !.pc = "fts_create"])
            /\ ftsLog' = Append(ftsLog, IF found THEN "stats_found"
                                                 ELSE "stats_none")
    /\ UNCHANGED <<splitVars, streamVars, deleterVars, chatVars, apiVars, toolVars, turnVars>>
    /\ UNCHANGED <<loadHistory, apiPending, tableExists, rows, ftsIndex,
                   documents, deletionQueue, usedUuids, postLog,
                   deletedOrigins>>

\* _create_fts_index_if_not_exists: create_fts_index
fts_create(m) ==
    /\ m.pc = "fts_create"
    /\ \/ /\ ftsIndex' = "building"
          /\ loadQueue' = Replace(loadQueue, m, [m EXCEPT !.pc = "fts_wait"])
       \/ /\ loadQueue' = Replace(loadQueue, m,
                [m EXCEPT !.pc = "mark_failed", !.raised = "fts_index"])
          /\ UNCHANGED ftsIndex
    /\ ftsLog' = Append(ftsLog, "create")
    /\ UNCHANGED <<splitVars, streamVars, deleterVars, chatVars, apiVars, toolVars, turnVars>>
    /\ UNCHANGED <<loadHistory, apiPending, tableExists, rows, documents,
                   deletionQueue, usedUuids, postLog, deletedOrigins>>

\* _create_fts_index_if_not_exists: wait_for_index returns once it is built
fts_wait(m) ==
    /\ m.pc = "fts_wait"
    /\ ftsIndex = "ready"
    /\ loadQueue' = Replace(loadQueue, m, [m EXCEPT !.pc = "mark_completed"])
    /\ ftsLog' = Append(ftsLog, "wait")
    /\ UNCHANGED <<splitVars, streamVars, deleterVars, chatVars, apiVars, toolVars, turnVars>>
    /\ UNCHANGED <<loadHistory, apiPending, tableExists, rows, ftsIndex,
                   documents, deletionQueue, usedUuids, postLog,
                   deletedOrigins>>

\* the store finishes building the index
IndexBuilt ==
    /\ ftsIndex = "building"
    /\ ftsIndex' = "ready"
    /\ UNCHANGED otherVars
    /\ UNCHANGED <<loadHistory, apiPending, loadQueue, tableExists, rows,
                   documents, deletionQueue, usedUuids, postLog,
                   deletedOrigins>>

\* else branch: PATCH status completed with completed_at
mark_completed(m) ==
    /\ m.pc = "mark_completed"
    /\ loadHistory' = update_load(loadHistory, m.load_id,
            UpdateDocumentLoad("completed", None, "ts", None))
    /\ loadQueue' = Replace(loadQueue, m,
            [m EXCEPT !.pc = "add_document", !.sent = Append(@, "completed")])
    /\ UNCHANGED otherVars
    /\ UNCHANGED <<apiPending, tableExists, rows, ftsIndex, documents,
                   deletionQueue, usedUuids, postLog, deletedOrigins>>

\* else branch: POST /documents {document_id: load_id, title, url}; reading
\* _doc_title of an empty chunk list raises IndexError out of the handler
add_document(m) ==
    /\ m.pc = "add_document"
    /\ IF m.docs = <<>>
       THEN /\ loadQueue' = Replace(loadQueue, m, Raises(m, "IndexError"))
            /\ UNCHANGED <<documents, usedUuids, postLog>>
       ELSE /\ Uuids \ usedUuids # {}
            /\ LET new_uuid == uuid4(usedUuids)
                req == [document_id |-> m.load_id,
                        title |-> doc_title(m.docs), url |-> m.url]
              IN /\ documents' = documents \cup {create_document(req, new_uuid)}
                 /\ usedUuids' = usedUuids \cup {new_uuid}
                 /\ postLog' = postLog \cup
                        {[sent |-> req.document_id, stored |-> new_uuid]}
                 /\ loadQueue' = Replace(loadQueue, m,
                        [m EXCEPT !.pc = "returning", !.posts = @ + 1])
    /\ UNCHANGED otherVars
    /\ UNCHANGED <<loadHistory, apiPending, tableExists, rows, ftsIndex,
                   deletionQueue, deletedOrigins>>

\* an except branch that swallows the error without a status update
mark_failed_silent(m) ==
    /\ m.pc = "mark_failed"
    /\ loadQueue' = Replace(loadQueue, m, [m EXCEPT !.pc = "returning"])
    /\ UNCHANGED otherVars
    /\ UNCHANGED <<loadHistory, apiPending, tableExists, rows, ftsIndex,
                   documents, deletionQueue, usedUuids, postLog,
                   deletedOrigins>>

\* an except branch that falls through to _add_document
mark_failed_then_add(m) ==
    /\ m.pc = "mark_failed"
    /\ loadHistory' = update_load(loadHistory, m.load_id,
            UpdateDocumentLoad("failed", None, None, repr(m.raised)))
    /\ loadQueue' = Replace(loadQueue, m,
            [m EXCEPT !.pc = "add_document", !.sent = Append(@, "failed")])
    /\ UNCHANGED otherVars
    /\ UNCHANGED <<apiPending, tableExists, rows, ftsIndex, documents,
                   deletionQueue, usedUuids, postLog, deletedOrigins>>

\* except branch: PATCH status failed with error_details = repr(e)
mark_failed(m) ==
    /\ m.pc = "mark_failed"
    /\ loadHistory' = update_load(loadHistory, m.load_id,
            UpdateDocumentLoad("failed", None, None, repr(m.raised)))
    /\ loadQueue' = Replace(loadQueue, m,
            [m EXCEPT !.pc = "returning", !.sent = Append(@, "failed")])
    /\ UNCHANGED otherVars
    /\ UNCHANGED <<apiPending, tableExists, rows, ftsIndex, documents,
                   deletionQueue, usedUuids, postLog, deletedOrigins>>

\* load_document and the handler return; SQS deletes the message
handler_return(m) ==
    /\ m.pc = "returning"
    /\ loadQueue' = Replace(loadQueue, m,
            [m EXCEPT !.pc = "done", !.outcome = "returned"])
    /\ UNCHANGED otherVars
    /\ UNCHANGED <<loadHistory, apiPending, tableExists, rows, ftsIndex,
                   documents, deletionQueue, usedUuids, postLog,
                   deletedOrigins>>

Running == {"handler", "mark_in_progress", "load_and_split", "add_documents",
            "fts_check", "fts_create", "fts_wait", "mark_completed",
            "add_document", "mark_failed", "returning"}

\* the invocation dies where it stands: the function's 5 minute timeout, or
\* an httpx transport error in a call made outside the try block
InvocationAborted(m) ==
    /\ m.pc \in Running
    /\ loadQueue' = Replace(loadQueue, m, Raises(m, "aborted"))
    /\ UNCHANGED otherVars
    /\ UNCHANGED <<loadHistory, apiPending, tableExists, rows, ftsIndex,
                   documents, deletionQueue, usedUuids, postLog,
                   deletedOrigins>>

\* ------------------------------------------------------------ backend API
KnownLoads == DOMAIN loadHistory \cup {p.load_id : p \in apiPending}

\* POST /documents/load, first half: uuid4 and sqs.send_message
api_load_document_send(source, url) ==
    /\ source \in Source
    /\ Cardinality(KnownLoads) < MaxLoads
    /\ Uuids \ usedUuids # {}
    /\ LET load_id == uuid4(usedUuids) IN
        /\ usedUuids' = usedUuids \cup {load_id}
        /\ loadQueue' = loadQueue \cup {NewMessage(load_id, source, url)}
        /\ apiPending' = apiPending \cup
                {[load_id |-> load_id, source |-> source, url |-> url]}
    /\ UNCHANGED otherVars
    /\ UNCHANGED <<loadHistory, tableExists, rows, ftsIndex, documents,
                   deletionQueue, postLog, deletedOrigins>>

\* POST /documents/load, second half: put_item of the pending record
api_load_document_put(p) ==
    /\ p \in apiPending
    /\ apiPending' = apiPending \ {p}
    /\ loadHistory' = (p.load_id :> DocumentLoad(p.source, p.url)) @@ loadHistory
    /\ UNCHANGED otherVars
    /\ UNCHANGED <<loadQueue, tableExists, rows, ftsIndex, documents,
                   deletionQueue, usedUuids, postLog, deletedOrigins>>

\* PATCH /documents/load/{load_id} sent by a client of the API
api_update_load(load_id, update_values) ==
    /\ loadHistory' = update_load(loadHistory, load_id, update_values)
    /\ response' = [op |-> "PATCH", id |-> load_id,
                    code |-> update_load_status(loadHistory, load_id)]
    /\ UNCHANGED <<splitVars, streamVars, deleterVars, chatVars, indexVars, toolVars, turnVars>>
    /\ UNCHANGED <<apiPending, loadQueue, tableExists, rows, ftsIndex,
                   documents, deletionQueue, usedUuids, postLog,
                   deletedOrigins>>

\* DELETE /documents/{document_id}: delete_item, then send_message and 204;
\* 404 on ConditionalCheckFailedException, before any message is sent
api_delete_document(document_id) ==
    /\ IF \E doc \in documents : doc.document_id = document_id
       THEN /\ documents' =
                    {doc \in documents : doc.document_id # document_id}
            /\ deletionQueue' = deletionQueue \cup
                    {[document_id |-> document_id, receives |-> 0,
                      pc |-> "queued"]}
            /\ deletedOrigins' = deletedOrigins \cup
                    {p.sent : p \in {q \in postLog : q.stored = document_id}}
            /\ response' = [op |-> "DELETE", id |-> document_id,
                            code |-> 204]
       ELSE /\ response' = [op |-> "DELETE", id |-> document_id,
                            code |-> 404]
            /\ UNCHANGED <<documents, deletionQueue, deletedOrigins>>
    /\ UNCHANGED <<splitVars, streamVars, deleterVars, chatVars, indexVars, toolVars, turnVars>>
    /\ UNCHANGED <<loadHistory, apiPending, loadQueue, tableExists, rows,
                   ftsIndex, usedUuids, postLog>>

\* --------------------------------------------------------- deletion worker
\* table.delete(f"id like '{document_id}%'")
delete_document(rs, document_id) ==
    SelectSeq(rs, LAMBDA r : ~DeleteFilter(document_id, r.id))

\* delete-document handler for one delivery of a deletion message;
\* open_table raises when the table does not exist
deleter_handler(d) ==
    /\ d.pc = "queued"
    /\ d.receives < max_receive_count
    /\ IF tableExists
       THEN /\ rows' = delete_document(rows, d.document_id)
            /\ deletionQueue' = Replace(deletionQueue, d,
                    [d EXCEPT !.receives = @ + 1, !.pc = "done"])
       ELSE /\ deletionQueue' = Replace(deletionQueue, d,
                    [d EXCEPT !.receives = @ + 1])
            /\ UNCHANGED rows
    /\ UNCHANGED otherVars
    /\ UNCHANGED <<loadHistory, apiPending, loadQueue, tableExists, ftsIndex,
                   documents, usedUuids, postLog, deletedOrigins>>

\* a deletion message received max_receive_count times goes to its DLQ
DeletionToDlq(d) ==
    /\ d.pc = "queued"
    /\ d.receives >= max_receive_count
    /\ deletionQueue' = Replace(deletionQueue, d, [d EXCEPT !.pc = "dlq"])
    /\ UNCHANGED otherVars
    /\ UNCHANGED <<loadHistory, apiPending, loadQueue, tableExists, rows,
                   ftsIndex, documents, usedUuids, postLog, deletedOrigins>>

\* ----------------------------------------------------- the load pipeline
Init ==
    /\ loadHistory = <<>>
    /\ apiPending = {}
    /\ loadQueue = {}
    /\ tableExists = FALSE
    /\ rows = <<>>
    /\ ftsIndex = "absent"
    /\ documents = {}
    /\ deletionQueue = {}
    /\ usedUuids = {}
    /\ postLog = {}
    /\ deletedOrigins = {}
    /\ rowsBefore = <<>>
    /\ messages = <<>>
    /\ messagesBefore = <<>>
    /\ window = 0
    /\ trimmed = FALSE
    /\ ftsLog = <<>>
    /\ response = NoResponse
    /\ toolResult = NoResult
    /\ retrieved = NoRetrieved
    /\ stream = NoStream
    /\ chatPc = "idle"

WorkerStep(m) ==
    \/ Receive(m)
    \/ MoveToDlq(m)
    \/ handler(m)
    \/ mark_in_progress(m)
    \/ load_and_split_documents(m)
    \/ add_documents(m)
    \/ fts_check(m)
    \/ fts_create(m)
    \/ fts_wait(m)
    \/ mark_completed(m)
    \/ add_document(m)
    \/ mark_failed(m)
    \/ handler_return(m)

DeleterStep(d) ==
    \/ deleter_handler(d)
    \/ DeletionToDlq(d)

\* A document exists only after a load has created the table, so that the
\* deletion handler never raises here and DeletionToDlq is never enabled.
Next ==
    \/ \E source \in Source, url \in Urls : api_load_document_send(source, url)
    \/ \E p \in apiPending : api_load_document_put(p)
    \/ \E document_id \in Uuids : api_delete_document(document_id)
    \/ \E m \in loadQueue : Receive(m)
    \/ \E m \in loadQueue : MoveToDlq(m)
    \/ \E m \in loadQueue : handler(m)
    \/ \E m \in loadQueue : mark_in_progress(m)
    \/ \E m \in loadQueue : load_and_split_documents(m)
    \/ \E m \in loadQueue : add_documents(m)
    \/ \E m \in loadQueue : fts_check(m)
    \/ \E m \in loadQueue : fts_create(m)
    \/ \E m \in loadQueue : fts_wait(m)
    \/ \E m \in loadQueue : mark_completed(m)
    \/ \E m \in loadQueue : add_document(m)
    \/ \E m \in loadQueue : mark_failed(m)
    \/ \E m \in loadQueue : handler_return(m)
    \/ \E m \in loadQueue : InvocationAborted(m)
    \/ IndexBuilt
    \/ \E d \in deletionQueue : deleter_handler(d)

Spec == Init /\ [][Next]_vars

FairSpec ==
    /\ Spec
    /\ WF_vars(\E m \in loadQueue : WorkerStep(m))
    /\ WF_vars(IndexBuilt)
    /\ WF_vars(\E d \in deletionQueue : DeleterStep(d))

\* ------------------------------------------- the load handler on a message
\* One message on the load queue, of any source, for a load whose history
\* record POST /documents/load has or has not yet written.
HandlerInit ==
    /\ \E source \in Source \cup {"unsupported"}, url \in Urls,
          has_record \in BOOLEAN :
        LET load_id == uuid4({}) IN
        /\ usedUuids = {load_id}
        /\ loadQueue = {NewMessage(load_id, source,
                            IF source \in Source THEN url ELSE TxtUrl)}
        /\ loadHistory = IF has_record
                         THEN (load_id :> DocumentLoad("pdf", url))
                         ELSE <<>>
    /\ apiPending = {}
    /\ tableExists = FALSE
    /\ rows = <<>>
    /\ ftsIndex = "absent"
    /\ documents = {}
    /\ deletionQueue = {}
    /\ postLog = {}
    /\ deletedOrigins = {}
    /\ rowsBefore = <<>>
    /\ messages = <<>>
    /\ messagesBefore = <<>>
    /\ window = 0
    /\ trimmed = FALSE
    /\ ftsLog = <<>>
    /\ response = NoResponse
    /\ toolResult = NoResult
    /\ retrieved = NoRetrieved
    /\ stream = NoStream
    /\ chatPc = "idle"

HandlerNext ==
    \/ \E m \in loadQueue : Receive(m)
    \/ \E m \in loadQueue : MoveToDlq(m)
    \/ \E m \in loadQueue : handler(m)
    \/ \E m \in loadQueue : mark_in_progress(m)
    \/ \E m \in loadQueue : load_and_split_documents(m)
    \/ \E m \in loadQueue : add_documents(m)
    \/ \E m \in loadQueue : fts_check(m)
    \/ \E m \in loadQueue : fts_create(m)
    \/ \E m \in loadQueue : fts_wait(m)
    \/ \E m \in loadQueue : mark_completed(m)
    \/ \E m \in loadQueue : add_document(m)
    \/ \E m \in loadQueue : mark_failed(m)
    \/ \E m \in loadQueue : handler_return(m)
    \/ \E m \in loadQueue : InvocationAborted(m)
    \/ IndexBuilt

SpecHandler == HandlerInit /\ [][HandlerNext]_vars

\* ------------------------------------------- the deleter on a stored table
\* ids as the handlers accept them: strings of any length, here without the
\* LIKE wildcards "%" and "_" (a UUID has none)
IdChars == {"a", "b"}
Ids == UNION {[1..n -> IdChars] : n \in 1..MaxIdLen}

\* the rows a load with this id and n chunks has added
StoredRows(id, n) ==
    [k \in 1..n |-> [id |-> ChunkId(id, k - 1), text |-> <<id, k>>,
                     metadata |-> ("url" :> "u2")]]

DeleterInit ==
    /\ \E a \in Ids, b \in Ids, na \in 0..MaxRows, nb \in 0..MaxRows :
        /\ rows = StoredRows(a, na) \o StoredRows(b, nb)
        /\ tableExists = (na + nb > 0)
    /\ \E document_id \in Ids :
        deletionQueue =
            {[document_id |-> document_id, receives |-> 0, pc |-> "queued"]}
    /\ rowsBefore = rows
    /\ loadHistory = <<>>
    /\ apiPending = {}
    /\ loadQueue = {}
    /\ ftsIndex = "absent"
    /\ documents = {}
    /\ usedUuids = {}
    /\ postLog = {}
    /\ deletedOrigins = {}
    /\ messages = <<>>
    /\ messagesBefore = <<>>
    /\ window = 0
    /\ trimmed = FALSE
    /\ ftsLog = <<>>
    /\ response = NoResponse
    /\ toolResult = NoResult
    /\ retrieved = NoRetrieved
    /\ stream = NoStream
    /\ chatPc = "idle"

DeleterNext ==
    \/ \E d \in deletionQueue : deleter_handler(d)
    \/ \E d \in deletionQueue : DeletionToDlq(d)

SpecDeleter == DeleterInit /\ [][DeleterNext]_vars

\* ------------------------------------------------ conversation trimming
MessageTypes == {"human", "ai", "tool"}
Histories == UNION {[1..n -> MessageTypes] : n \in 0..MaxHist}

\* a conversation of alternating user and assistant messages, one more
\* than MAX_MEMORY_WINDOW
AlternatingHistory ==
    [i \in 1..(MAX_MEMORY_WINDOW + 1) |->
        IF i % 2 = 1 THEN "human" ELSE "ai"]

\* a loop that deletes the excess messages and stops there
ScanToDelete_excess_only(msgs, i, minimum_to_delete) == minimum_to_delete

RECURSIVE ScanToDelete(_, _, _)
\* the for loop of delete_messages from position i on: the number of
\* messages in messages_to_delete when the loop ends
ScanToDelete(msgs, i, minimum_to_delete) ==
    IF i > Len(msgs) THEN Len(msgs)
    ELSE IF i <= minimum_to_delete
         THEN ScanToDelete(msgs, i + 1, minimum_to_delete)
         ELSE IF msgs[i] # "human"
              THEN ScanToDelete(msgs, i + 1, minimum_to_delete)
              ELSE i - 1

\* the history after the RemoveMessage updates delete_messages returns
delete_messages(msgs, max_memory_window) ==
    IF Len(msgs) <= max_memory_window
    THEN msgs
    ELSE SubSeq(msgs,
                ScanToDelete(msgs, 1, Len(msgs) - max_memory_window) + 1,
                Len(msgs))

TrimInit ==
    /\ \/ /\ messages \in Histories
          /\ window \in 0..MaxWindow
       \/ /\ messages = AlternatingHistory
          /\ window = MAX_MEMORY_WINDOW
    /\ messagesBefore = messages
    /\ trimmed = FALSE
    /\ loadHistory = <<>>
    /\ apiPending = {}
    /\ loadQueue = {}
    /\ tableExists = FALSE
    /\ rows = <<>>
    /\ ftsIndex = "absent"
    /\ documents = {}
    /\ deletionQueue = {}
    /\ usedUuids = {}
    /\ postLog = {}
    /\ deletedOrigins = {}
    /\ rowsBefore = <<>>
    /\ ftsLog = <<>>
    /\ response = NoResponse
    /\ toolResult = NoResult
    /\ retrieved = NoRetrieved
    /\ stream = NoStream
    /\ chatPc = "idle"

\* the before_model hook runs on the history
BeforeModel ==
    /\ ~trimmed
    /\ messagesBefore' = messages
    /\ messages' = delete_messages(messages, window)
    /\ trimmed' = TRUE
    /\ UNCHANGED window
    /\ UNCHANGED pipelineVars
    /\ UNCHANGED deleterVars
    /\ UNCHANGED indexVars
    /\ UNCHANGED apiVars
    /\ UNCHANGED toolVars
    /\ UNCHANGED turnVars
    /\ UNCHANGED splitVars
    /\ UNCHANGED streamVars

TrimNext == BeforeModel

SpecTrim == TrimInit /\ [][TrimNext]_vars

\* ------------------------------------------------ a conversation thread
BeginsWithHuman(msgs) == msgs # <<>> /\ msgs[1] = "human"

\* main: the user's message is added to the thread and the agent runs
user_message ==
    /\ chatPc = "idle"
    /\ messages' = Append(messages, "human")
    /\ chatPc' = "before_model"
    /\ UNCHANGED <<messagesBefore, window, trimmed>>
    /\ UNCHANGED pipelineVars
    /\ UNCHANGED <<splitVars, streamVars, deleterVars, indexVars, apiVars, toolVars>>

\* the before_model middleware: delete_messages runs before every model call
chat_before_model ==
    /\ chatPc = "before_model"
    /\ messagesBefore' = messages
    /\ messages' = delete_messages(messages, window)
    /\ chatPc' = "model"
    /\ UNCHANGED <<window, trimmed>>
    /\ UNCHANGED pipelineVars
    /\ UNCHANGED <<splitVars, streamVars, deleterVars, indexVars, apiVars, toolVars>>

\* the model answers: with a call of retrieve_context, or with its reply
model_reply ==
    /\ chatPc = "model"
    /\ BeginsWithHuman(messages)
    /\ messages' = Append(messages, "ai")
    /\ chatPc' \in {"tools", "idle"}
    /\ UNCHANGED <<messagesBefore, window, trimmed>>
    /\ UNCHANGED pipelineVars
    /\ UNCHANGED <<splitVars, streamVars, deleterVars, indexVars, apiVars, toolVars>>

\* Bedrock's validation exception for a history that does not begin with a
\* human message: the turn ends
model_rejects ==
    /\ chatPc = "model"
    /\ ~BeginsWithHuman(messages)
    /\ chatPc' = "idle"
    /\ UNCHANGED chatVars
    /\ UNCHANGED pipelineVars
    /\ UNCHANGED <<splitVars, streamVars, deleterVars, indexVars, apiVars, toolVars>>

\* the tools node: the result of retrieve_context is added as a tool message
tools_node ==
    /\ chatPc = "tools"
    /\ messages' = Append(messages, "tool")
    /\ chatPc' = "before_model"
    /\ UNCHANGED <<messagesBefore, window, trimmed>>
    /\ UNCHANGED pipelineVars
    /\ UNCHANGED <<splitVars, streamVars, deleterVars, indexVars, apiVars, toolVars>>

\* a new chat: setup_agent() without a conversation
ChatInit ==
    /\ messages = <<>>
    /\ messagesBefore = <<>>
    /\ window = MAX_MEMORY_WINDOW
    /\ trimmed = FALSE
    /\ chatPc = "idle"
    /\ loadHistory = <<>>
    /\ apiPending = {}
    /\ loadQueue = {}
    /\ tableExists = FALSE
    /\ rows = <<>>
    /\ ftsIndex = "absent"
    /\ documents = {}
    /\ deletionQueue = {}
    /\ usedUuids = {}
    /\ postLog = {}
    /\ deletedOrigins = {}
    /\ rowsBefore = <<>>
    /\ ftsLog = <<>>
    /\ response = NoResponse
    /\ toolResult = NoResult
    /\ retrieved = NoRetrieved
    /\ stream = NoStream

ChatNext ==
    \/ user_message
    \/ chat_before_model
    \/ model_reply
    \/ model_rejects
    \/ tools_node

SpecChat == ChatInit /\ [][ChatNext]_vars

\* ------------------------------------------------ the retrieval tool
\* db.open_table("vectorstore"): the table, or ValueError when there is none
open_table(exists) == IF exists THEN "table" ELSE "ValueError"

\* an emptiness test that never sees the missing table
is_vector_store_empty_never(exists) == FALSE

\* is_vector_store_empty: True exactly when open_table raises ValueError
is_vector_store_empty(exists) == open_table(exists) = "ValueError"

Sentinel == "The vector store is empty."

Queries == {"q1", "q2"}

\* The rows a hybrid query may return, in the order it returns them: the
\* vector and keyword searches and the RRFReranker are the store library's,
\* so every order of every choice of up to QueryLimit rows is allowed.
HybridQuery(rs) ==
    LET n == IF Len(rs) < QueryLimit THEN Len(rs) ELSE QueryLimit
    IN {f \in [1..n -> 1..Len(rs)] : \A i, j \in 1..n : i # j => f[i] # f[j]}

\* f"Source: {doc['metadata']}\nContent: {doc['text']}" for each row
FormatDocs(rs, ranking) ==
    [k \in DOMAIN ranking |->
        [Source |-> rs[ranking[k]].metadata, Content |-> rs[ranking[k]].text]]

\* retrieve_context(query); nearest_to_text needs the full-text index, and
\* may or may not find it while it is being built
retrieve_context(query) ==
    /\ IF is_vector_store_empty(tableExists)
       THEN toolResult' = [query |-> query, kind |-> "sentinel",
                           queried |-> FALSE, output |-> <<Sentinel>>]
       ELSE \/ /\ open_table(tableExists) = "ValueError" \/ ftsIndex # "ready"
               /\ toolResult' = [query |-> query, kind |-> "raised",
                                 queried |-> tableExists, output |-> <<>>]
            \/ /\ open_table(tableExists) = "table"
               /\ ftsIndex # "absent"
               /\ \E ranking \in HybridQuery(rows) :
                    toolResult' = [query |-> query, kind |-> "docs",
                                   queried |-> TRUE,
                                   output |-> FormatDocs(rows, ranking)]
    /\ UNCHANGED pipelineVars
    /\ UNCHANGED <<splitVars, streamVars, deleterVars, chatVars, indexVars, apiVars, turnVars>>

\* a store in any state the loader and the deleter can leave it in
RetrieveInit ==
    /\ \E a \in Ids, b \in Ids, na \in 0..MaxRows, nb \in 0..MaxRows :
            rows = StoredRows(a, na) \o StoredRows(b, nb)
    /\ tableExists \in BOOLEAN
    /\ rows # <<>> => tableExists
    /\ ftsIndex \in {"absent", "building", "ready"}
    /\ ~tableExists => ftsIndex = "absent"
    /\ loadHistory = <<>>
    /\ apiPending = {}
    /\ loadQueue = {}
    /\ documents = {}
    /\ deletionQueue = {}
    /\ usedUuids = {}
    /\ postLog = {}
    /\ deletedOrigins = {}
    /\ rowsBefore = <<>>
    /\ messages = <<>>
    /\ messagesBefore = <<>>
    /\ window = 0
    /\ trimmed = FALSE
    /\ ftsLog = <<>>
    /\ response = NoResponse
    /\ toolResult = NoResult
    /\ retrieved = NoRetrieved
    /\ stream = NoStream
    /\ chatPc = "idle"

RetrieveNext == \E query \in Queries : retrieve_context(query)

SpecRetrieve == RetrieveInit /\ [][RetrieveNext]_vars

\* ------------------------------------------- the backend API and a client
\* the bodies of the PATCH requests the load worker sends
UpdateValues ==
    {UpdateDocumentLoad("in_progress", "ts", None, None),
     UpdateDocumentLoad("completed", None, "ts", None),
     UpdateDocumentLoad("failed", None, None, repr("fetch"))}

\* Tables holding up to MaxApiRecords load records and documents; a client
\* sends PATCH and DELETE requests naming any id.
ApiInit ==
    /\ \E L \in SUBSET Uuids :
        /\ Cardinality(L) <= MaxApiRecords
        /\ loadHistory = [a \in L |-> DocumentLoad("pdf", "u1")]
    /\ \E D \in SUBSET Uuids :
        /\ Cardinality(D) <= MaxApiRecords
        /\ documents = {[document_id |-> d, title |-> "T", url |-> "u1"] :
                            d \in D}
    /\ apiPending = {}
    /\ loadQueue = {}
    /\ tableExists = FALSE
    /\ rows = <<>>
    /\ ftsIndex = "absent"
    /\ deletionQueue = {}
    /\ usedUuids = {}
    /\ postLog = {}
    /\ deletedOrigins = {}
    /\ rowsBefore = <<>>
    /\ messages = <<>>
    /\ messagesBefore = <<>>
    /\ window = 0
    /\ trimmed = FALSE
    /\ ftsLog = <<>>
    /\ response = NoResponse
    /\ toolResult = NoResult
    /\ retrieved = NoRetrieved
    /\ stream = NoStream
    /\ chatPc = "idle"

ApiNext ==
    \/ \E load_id \in Uuids, update_values \in UpdateValues :
            api_update_load(load_id, update_values)
    \/ \E document_id \in Uuids : api_delete_document(document_id)

SpecApi == ApiInit /\ [][ApiNext]_vars

\* ------------------------------------------- two loads running concurrently
\* Two accepted load requests, for different documents and with their
\* history records written, whose messages the event source hands to two
\* invocations of the function at once (no concurrency limit is set).
ConcurrentInit ==
    /\ LET a == uuid4({})
           b == uuid4({a})
       IN /\ usedUuids = {a, b}
          /\ loadQueue = {NewMessage(a, "pdf", "u2"),
                          NewMessage(b, "pdf", "u1")}
          /\ loadHistory = (a :> DocumentLoad("pdf", "u2"))
                            @@ (b :> DocumentLoad("pdf", "u1"))
    /\ apiPending = {}
    /\ tableExists = FALSE
    /\ rows = <<>>
    /\ ftsIndex = "absent"
    /\ documents = {}
    /\ deletionQueue = {}
    /\ postLog = {}
    /\ deletedOrigins = {}
    /\ rowsBefore = <<>>
    /\ messages = <<>>
    /\ messagesBefore = <<>>
    /\ window = 0
    /\ trimmed = FALSE
    /\ ftsLog = <<>>
    /\ response = NoResponse
    /\ toolResult = NoResult
    /\ retrieved = NoRetrieved
    /\ stream = NoStream
    /\ chatPc = "idle"

ConcurrentNext ==
    \/ \E m \in loadQueue : Receive(m)
    \/ \E m \in loadQueue : handler(m)
    \/ \E m \in loadQueue : mark_in_progress(m)
    \/ \E m \in loadQueue : load_and_split_documents(m)
    \/ \E m \in loadQueue : add_documents(m)
    \/ \E m \in loadQueue : fts_check(m)
    \/ \E m \in loadQueue : fts_create(m)
    \/ \E m \in loadQueue : fts_wait(m)
    \/ \E m \in loadQueue : mark_completed(m)
    \/ \E m \in loadQueue : add_document(m)
    \/ \E m \in loadQueue : mark_failed(m)
    \/ \E m \in loadQueue : handler_return(m)
    \/ IndexBuilt

SpecConcurrent == ConcurrentInit /\ [][ConcurrentNext]_vars

\* --------------------------------------- the tool output and its consumer
\* "\n--\n"
Delimiter == <<"\n", "-", "-", "\n">>

\* the characters of a chunk's text: the two the delimiter is made of
TextChars == {"\n", "-"}

\* chunk texts: every string of these characters up to the length of the
\* delimiter, so that a text can be the delimiter, or any part of it
Texts == UNION {[1..n -> TextChars] : n \in 0..Len(Delimiter)}

\* the hits of a hybrid query, as the text of each row
HitLists == UNION {[1..n -> Texts] : n \in 0..MaxHits}

\* str(doc['metadata']): the repr of a dict of strings, in which a newline
\* can only appear escaped
MetadataRepr == <<"{", "}">>

\* f"Source: {doc['metadata']}\nContent: {doc['text']}"
format_doc(text) ==
    <<"S", "o", "u", "r", "c", "e", ":", " ">> \o MetadataRepr
        \o <<"\n", "C", "o", "n", "t", "e", "n", "t", ":", " ">> \o text

\* a join that puts a single newline between the passages
join_newline(sep, parts) ==
    IF parts = <<>> THEN <<>>
    ELSE LET rest[k \in 1..Len(parts)] ==
                IF k = Len(parts) THEN parts[k]
                ELSE parts[k] \o <<"\n">> \o rest[k + 1]
         IN rest[1]

\* sep.join(parts)
join(sep, parts) ==
    IF parts = <<>> THEN <<>>
    ELSE LET rest[k \in 1..Len(parts)] ==
                IF k = Len(parts) THEN parts[k]
                ELSE parts[k] \o sep \o rest[k + 1]
         IN rest[1]

\* s[i:] starts with sep
MatchAt(s, sep, i) ==
    /\ i + Len(sep) - 1 <= Len(s)
    /\ \A j \in 1..Len(sep) : s[i + j - 1] = sep[j]

RECURSIVE SplitFrom(_, _, _, _)
\* str.split(sep) from position i on, start being where the current piece
\* began: occurrences of sep are taken from left to right, without overlap
SplitFrom(s, sep, start, i) ==
    IF i > Len(s) THEN <<SubSeq(s, start, Len(s))>>
    ELSE IF MatchAt(s, sep, i)
         THEN <<SubSeq(s, start, i - 1)>>
                \o SplitFrom(s, sep, i + Len(sep), i + Len(sep))
         ELSE SplitFrom(s, sep, start, i + 1)

\* s.split(sep); "".split(sep) is [""]
split(s, sep) == SplitFrom(s, sep, 1, 1)

\* retrieve_context returns the formatted hits joined with the delimiter
join_docs ==
    /\ retrieved.pc = "hits"
    /\ retrieved' = [retrieved EXCEPT
            !.pc = "output",
            !.output = join(Delimiter,
                            [k \in DOMAIN retrieved.hits |->
                                format_doc(retrieved.hits[k])])]
    /\ UNCHANGED pipelineVars
    /\ UNCHANGED <<deleterVars, chatVars, indexVars, apiVars, toolVars,
                   turnVars, streamVars>>

\* rag_experiment: retrieved_contexts = content.split("\n--\n")
rag_experiment ==
    /\ retrieved.pc = "output"
    /\ retrieved' = [retrieved EXCEPT
            !.pc = "split",
            !.contexts = split(retrieved.output, Delimiter)]
    /\ UNCHANGED pipelineVars
    /\ UNCHANGED <<deleterVars, chatVars, indexVars, apiVars, toolVars,
                   turnVars, streamVars>>

SplitInit ==
    /\ \E hits \in HitLists :
            retrieved = [hits |-> hits, pc |-> "hits", output |-> <<>>,
                         contexts |-> <<>>]
    /\ loadHistory = <<>>
    /\ apiPending = {}
    /\ loadQueue = {}
    /\ tableExists = FALSE
    /\ rows = <<>>
    /\ ftsIndex = "absent"
    /\ documents = {}
    /\ deletionQueue = {}
    /\ usedUuids = {}
    /\ postLog = {}
    /\ deletedOrigins = {}
    /\ rowsBefore = <<>>
    /\ messages = <<>>
    /\ messagesBefore = <<>>
    /\ window = 0
    /\ trimmed = FALSE
    /\ ftsLog = <<>>
    /\ response = NoResponse
    /\ toolResult = NoResult
    /\ stream = NoStream
    /\ chatPc = "idle"

SplitNext ==
    \/ join_docs
    \/ rag_experiment

SpecSplit == SplitInit /\ [][SplitNext]_vars

\* ------------------------------------------------ resuming a conversation
\* resume: the thread's user_message and assistant_message steps, as
\* HumanMessage and AIMessage
StepTypes == {"human", "ai"}

\* a thread whose only user message is followed by MAX_MEMORY_WINDOW
\* assistant messages
AssistantTail ==
    [i \in 1..(MAX_MEMORY_WINDOW + 1) |-> IF i = 1 THEN "human" ELSE "ai"]

Conversations ==
    UNION {[1..n -> StepTypes] : n \in 0..MaxHist}
        \cup {AlternatingHistory, AssistantTail}

\* msgs[-n:] for n > 0
LastN(msgs, n) ==
    IF Len(msgs) <= n THEN msgs
    ELSE SubSeq(msgs, Len(msgs) - n + 1, Len(msgs))

RECURSIVE PopNonHuman(_)
\* while not isinstance(messages[0], HumanMessage): messages.pop(0);
\* messages[0] of an empty list raises IndexError
PopNonHuman(msgs) ==
    IF msgs = <<>> THEN [raised |-> TRUE, messages |-> <<>>]
    ELSE IF msgs[1] = "human" THEN [raised |-> FALSE, messages |-> msgs]
         ELSE PopNonHuman(Tail(msgs))

\* setup_agent(conversation): the messages handed to agent.update_state
setup_agent(conversation, max_memory_window) ==
    PopNonHuman(LastN(conversation, max_memory_window))

\* on_chat_resume: setup_agent restores the thread, or raises
resume ==
    /\ chatPc = "resume"
    /\ LET restored == setup_agent(messagesBefore, window)
       IN IF restored.raised
          THEN /\ chatPc' = "IndexError"
               /\ UNCHANGED messages
          ELSE /\ chatPc' = "idle"
               /\ messages' = restored.messages
    /\ UNCHANGED <<messagesBefore, window, trimmed>>
    /\ UNCHANGED pipelineVars
    /\ UNCHANGED <<deleterVars, indexVars, apiVars, toolVars, splitVars,
                   streamVars>>

\* a user opens a stored thread; the restored agent then serves messages
ResumeInit ==
    /\ messagesBefore \in Conversations
    /\ messages = <<>>
    /\ window = MAX_MEMORY_WINDOW
    /\ trimmed = FALSE
    /\ chatPc = "resume"
    /\ loadHistory = <<>>
    /\ apiPending = {}
    /\ loadQueue = {}
    /\ tableExists = FALSE
    /\ rows = <<>>
    /\ ftsIndex = "absent"
    /\ documents = {}
    /\ deletionQueue = {}
    /\ usedUuids = {}
    /\ postLog = {}
    /\ deletedOrigins = {}
    /\ rowsBefore = <<>>
    /\ ftsLog = <<>>
    /\ response = NoResponse
    /\ toolResult = NoResult
    /\ retrieved = NoRetrieved
    /\ stream = NoStream

ResumeNext ==
    \/ resume
    \/ user_message
    \/ chat_before_model
    \/ model_reply
    \/ model_rejects
    \/ tools_node

SpecResume == ResumeInit /\ [][ResumeNext]_vars

\* ------------------------------------- a chat query during a first load
\* The load handler works on the first message of an empty store, for a
\* document of one chunk, while the chat agent's tool queries that store.
IngestQueryInit ==
    /\ LET load_id == uuid4({}) IN
        /\ usedUuids = {load_id}
        /\ loadQueue = {NewMessage(load_id, "pdf", "u2")}
        /\ loadHistory = (load_id :> DocumentLoad("pdf", "u2"))
    /\ apiPending = {}
    /\ tableExists = FALSE
    /\ rows = <<>>
    /\ ftsIndex = "absent"
    /\ documents = {}
    /\ deletionQueue = {}
    /\ postLog = {}
    /\ deletedOrigins = {}
    /\ rowsBefore = <<>>
    /\ messages = <<>>
    /\ messagesBefore = <<>>
    /\ window = 0
    /\ trimmed = FALSE
    /\ ftsLog = <<>>
    /\ response = NoResponse
    /\ toolResult = NoResult
    /\ retrieved = NoRetrieved
    /\ stream = NoStream
    /\ chatPc = "idle"

IngestQueryNext ==
    \/ HandlerNext
    \/ \E query \in Queries : retrieve_context(query)

SpecIngestQuery == IngestQueryInit /\ [][IngestQueryNext]_vars

\* ------------------------------------------- the chat stream handler
\* The text of a streamed chunk: the pieces the model's <thinking> tags
\* arrive in, a word, the same with a trailing newline, or no text at all
\* (content_blocks[0]["text"] raises IndexError or KeyError).
NoText == "no_text"
Tokens == {"<thinking", ">", " </", "thinking", "w", "thinking\n"}
Nodes == {"model", "tools"}

\* token.rstrip("\n") on these tokens
rstrip(token) == IF token = "thinking\n" THEN "thinking" ELSE token

\* main, before the loop: answer = cl.Message(""), in_thinking_step = False;
\* about_to_end_thinking is not bound yet. inside, closing and expected
\* follow the stream itself: whether the last model token left it inside a
\* <thinking> ... </thinking> block, how much of the closing tag " </",
\* "thinking", ">" has just been seen, and the model tokens outside blocks.
StreamStart ==
    [pc |-> "streaming", n |-> 0, in_thinking_step |-> FALSE,
     about_to_end_thinking |-> "unbound", answer |-> <<>>,
     thinking_step |-> <<>>, tool_steps |-> 0,
     inside |-> FALSE, closing |-> 0, expected |-> <<>>]

\* case "model": the handler's state after the token
model_token(s, token) ==
    IF token = "<thinking"
    THEN [s EXCEPT !.in_thinking_step = TRUE,
                   !.about_to_end_thinking = "false"]
    ELSE IF ~s.in_thinking_step
    THEN [s EXCEPT !.answer = Append(@, token)]
    ELSE IF rstrip(token) \in {" </", "thinking"}
    THEN [s EXCEPT !.about_to_end_thinking = "true"]
    ELSE IF rstrip(token) = ">"
    THEN IF s.about_to_end_thinking = "true"
         THEN [s EXCEPT !.in_thinking_step = FALSE]
         ELSE s
    ELSE [s EXCEPT !.thinking_step = Append(@, rstrip(token))]

\* where a model token leaves the stream: inside or outside a block
block_position(s, token) ==
    IF ~s.inside
    THEN IF token = "<thinking"
         THEN [s EXCEPT !.inside = TRUE, !.closing = 0]
         ELSE [s EXCEPT !.expected = Append(@, token)]
    ELSE IF s.closing = 2 /\ rstrip(token) = ">"
    THEN [s EXCEPT !.inside = FALSE, !.closing = 0]
    ELSE IF s.closing = 1 /\ rstrip(token) = "thinking"
    THEN [s EXCEPT !.closing = 2]
    ELSE IF rstrip(token) = " </"
    THEN [s EXCEPT !.closing = 1]
    ELSE [s EXCEPT !.closing = 0]

\* one round of the async for loop over agent.astream(...)
main_loop(node, token) ==
    /\ stream.pc = "streaming"
    /\ stream.n < MaxTokens
    /\ stream' =
        LET s == [stream EXCEPT !.n = @ + 1] IN
        IF token = NoText THEN s
        ELSE IF node = "tools" THEN [s EXCEPT !.tool_steps = @ + 1]
        ELSE model_token(block_position(s, token), token)
    /\ UNCHANGED pipelineVars
    /\ UNCHANGED <<deleterVars, chatVars, indexVars, apiVars, toolVars,
                   turnVars, splitVars>>

\* the stream ends: answer.send()
answer_send ==
    /\ stream.pc = "streaming"
    /\ stream' = [stream EXCEPT !.pc = "sent"]
    /\ UNCHANGED pipelineVars
    /\ UNCHANGED <<deleterVars, chatVars, indexVars, apiVars, toolVars,
                   turnVars, splitVars>>

StreamInit ==
    /\ stream = StreamStart
    /\ loadHistory = <<>>
    /\ apiPending = {}
    /\ loadQueue = {}
    /\ tableExists = FALSE
    /\ rows = <<>>
    /\ ftsIndex = "absent"
    /\ documents = {}
    /\ deletionQueue = {}
    /\ usedUuids = {}
    /\ postLog = {}
    /\ deletedOrigins = {}
    /\ rowsBefore = <<>>
    /\ messages = <<>>
    /\ messagesBefore = <<>>
    /\ window = 0
    /\ trimmed = FALSE
    /\ ftsLog = <<>>
    /\ response = NoResponse
    /\ toolResult = NoResult
    /\ retrieved = NoRetrieved
    /\ chatPc = "idle"

StreamNext ==
    \/ \E node \in Nodes, token \in Tokens \cup {NoText} :
            main_loop(node, token)
    \/ answer_send

SpecStream == StreamInit /\ [][StreamNext]_vars

\* ================================================================ claims
Terminal == {"completed", "failed"}

StatusRank(status) ==
    IF status = "pending" THEN 0 ELSE IF status = "in_progress" THEN 1 ELSE 2

\* C1: the statuses a load-history record goes through are a subsequence of
\* pending, in_progress, {completed | failed}: a record is created pending,
\* every change of the stored status moves forward, and a terminal status is
\* only entered from in_progress.
C1_StatusSequence ==
    [][\A a \in DOMAIN loadHistory' :
        IF a \notin DOMAIN loadHistory
        THEN loadHistory'[a].status = "pending"
        ELSE loadHistory'[a].status # loadHistory[a].status =>
                /\ StatusRank(loadHistory'[a].status)
                     > StatusRank(loadHistory[a].status)
                /\ loadHistory'[a].status \in Terminal =>
                     loadHistory[a].status = "in_progress"]_vars

\* C2: completed and failed are absorbing: a record whose stored status is
\* completed or failed keeps that status in every later step.
C2_TerminalAbsorbing ==
    [][\A a \in DOMAIN loadHistory :
        loadHistory[a].status \in Terminal =>
            loadHistory'[a].status = loadHistory[a].status]_vars

C4_DocumentIdIsLoadId ==
    \A p \in postLog : p.stored = p.sent

NoChunkOf(a) == \A k \in 1..Len(rows) : ~StartsWith(rows[k].id, a)

\* C5: once the document loaded under attempt a got a 204 from DELETE, the
\* store eventually holds no chunk whose id starts with a.
C5_DeletedChunksRemoved ==
    \A a \in Uuids : (a \in deletedOrigins) ~> NoChunkOf(a)

\* C6: an invocation of load_document in which a step of the try block
\* raised sends no POST /documents.
C6_FailedRunPostsNothing ==
    \A m \in loadQueue : m.raised # None => m.posts = 0

\* a run whose index step raised after its chunks were stored has ended
\* without a Document
C6_Witness ==
    \E m \in loadQueue :
        /\ m.raised = "fts_index"
        /\ m.pc = "done"
        /\ \E k \in 1..Len(rows) : StartsWith(rows[k].id, m.load_id)
        /\ postLog = {}

Settled(a) ==
    /\ a \notin {p.load_id : p \in apiPending}
    /\ \A m \in loadQueue : m.load_id = a => m.pc \in {"done", "dlq"}

\* C7: once no delivery of the attempt's message is left, an attempt whose
\* status is completed has exactly one Document and any other attempt none.
C7_ExactlyOneDocument ==
    \A a \in DOMAIN loadHistory :
        Settled(a) =>
            Cardinality({p \in postLog : p.sent = a})
                = IF loadHistory[a].status = "completed" THEN 1 ELSE 0

DigitValue(c) == CHOOSE d \in 0..9 : DigitChars[d + 1] = c

RECURSIVE DecimalValue(_)
DecimalValue(s) ==
    IF s = <<>> THEN 0
    ELSE 10 * DecimalValue(SubSeq(s, 1, Len(s) - 1)) + DigitValue(s[Len(s)])

IsDigit(c) == \E d \in 1..10 : DigitChars[d] = c

\* id is load_id, "-", and the decimal digits of i, filled with zeros on the
\* left to four digits
IsPaddedChunkId(id, load_id, i) ==
    /\ Len(id) >= Len(load_id) + 5
    /\ Len(id) > Len(load_id) + 5 => id[Len(load_id) + 2] # "0"
    /\ SubSeq(id, 1, Len(load_id)) = load_id
    /\ id[Len(load_id) + 1] = "-"
    /\ \A j \in (Len(load_id) + 2)..Len(id) : IsDigit(id[j])
    /\ DecimalValue(SubSeq(id, Len(load_id) + 2, Len(id))) = i

AfterAdd == {"fts_check", "fts_create", "fts_wait", "mark_completed",
             "add_document", "returning", "done"}

\* C8: the ids a run passes to add_documents for its n chunks are
\* A-0000 .. A-(n-1), zero-padded to four digits, one per chunk in chunk
\* order, without duplicates.
C8_ChunkIds ==
    \A m \in loadQueue :
        (m.pc \in AfterAdd /\ m.raised = None) =>
            /\ Len(m.passed_ids) = Len(m.docs)
            /\ \A k \in 1..Len(m.passed_ids) :
                    IsPaddedChunkId(m.passed_ids[k], m.load_id, k - 1)
            /\ \A j, k \in 1..Len(m.passed_ids) :
                    j # k => m.passed_ids[j] # m.passed_ids[k]

\* a run has completed after passing more than ten ids
C8_Witness ==
    \E m \in loadQueue :
        /\ m.pc = "done"
        /\ m.sent = <<"in_progress", "completed">>
        /\ Len(m.passed_ids) = MaxChunks
        /\ Len(m.passed_ids) > 10

OwnerOf(id) == SubSeq(id, 1, Len(id) - 5)

C10_UnsupportedSource ==
    \A m \in loadQueue :
        m.source # "pdf" =>
            /\ m.pc \in {"queued", "handler", "dlq"}
            /\ m.sent = <<>>
            /\ m.posts = 0
            /\ m.outcome \in {None, "NotImplementedError", "aborted"}
            /\ m.load_id \in DOMAIN loadHistory =>
                   loadHistory[m.load_id] = DocumentLoad("pdf",
                                                loadHistory[m.load_id].url)

\* the handler has raised NotImplementedError for a load with a record
C10_Witness ==
    \E m \in loadQueue :
        /\ m.source = "unsupported"
        /\ m.outcome = "NotImplementedError"
        /\ m.load_id \in DOMAIN loadHistory
        /\ loadHistory[m.load_id].status = "pending"

OperationalErrors == {"fetch", "add_documents", "fts_index"}

\* C11: an error raised by the fetch and split, by add_documents or by the
\* index step never leaves load_document as an exception; the run goes on to
\* send status failed after in_progress, the record (when there is one) gets
\* status failed with error_details = repr of the error, and the run returns.
C11_ErrorsReported ==
    \A m \in loadQueue :
        /\ m.outcome \notin OperationalErrors
        /\ m.raised # None =>
                /\ m.raised \in OperationalErrors
                /\ m.pc \in {"mark_failed", "returning", "done"}
        /\ (m.raised # None /\ m.pc \in {"returning", "done"}) =>
                /\ m.sent = <<"in_progress", "failed">>
                /\ m.load_id \in DOMAIN loadHistory =>
                        /\ loadHistory[m.load_id].status = "failed"
                        /\ loadHistory[m.load_id].error_details
                                = repr(m.raised)
        /\ (m.raised # None /\ m.pc = "done") => m.outcome = "returned"

\* a run in which add_documents raised has returned with the record failed
C11_Witness ==
    \E m \in loadQueue :
        /\ m.pc = "done"
        /\ m.outcome = "returned"
        /\ m.raised = "add_documents"
        /\ m.load_id \in DOMAIN loadHistory
        /\ loadHistory[m.load_id].error_details = "add_documents()"

InTry == {"load_and_split", "add_documents", "fts_check", "fts_create",
          "fts_wait"}

\* C12: an invocation of load_document sends in_progress first and then,
\* by the time it ends, exactly one of completed (no step raised) or failed
\* (a step raised); it sends nothing else.
C12_TwoStatusUpdates ==
    \A m \in loadQueue :
        m.source = "pdf" =>
            /\ m.pc \in {"queued", "handler", "mark_in_progress", "dlq"} =>
                    m.sent = <<>>
            /\ m.pc \in InTry \cup {"mark_completed", "mark_failed"} =>
                    m.sent = <<"in_progress">>
            /\ m.pc \in {"add_document", "returning", "done"} =>
                    m.sent = <<"in_progress",
                               IF m.raised = None THEN "completed"
                                                  ELSE "failed">>

\* a run whose download failed has ended after in_progress and failed
C12_Witness ==
    \E m \in loadQueue :
        /\ m.pc = "done"
        /\ m.raised = "fetch"
        /\ m.sent = <<"in_progress", "failed">>
        /\ m.receives = 1

\* C13: once one call of _create_fts_index_if_not_exists has run to its end
\* (wait_for_index returned), every later call finds the index by name and
\* invokes neither create_fts_index nor wait_for_index, so that the call
\* that ran to its end made the one build there is from then on.
C13_IndexBuiltOnce ==
    /\ \A i \in 1..Len(ftsLog) :
            ftsLog[i] = "wait" =>
                \A j \in (i + 1)..Len(ftsLog) : ftsLog[j] = "stats_found"
    /\ \A i \in 1..Len(ftsLog) :
            ftsLog[i] = "wait" =>
                /\ i >= 3
                /\ ftsLog[i - 1] = "create"
                /\ ftsLog[i - 2] = "stats_none"

\* the step ran twice in a row: the first call built the index, the second
\* found it
C13_Witness ==
    ftsLog = <<"stats_none", "create", "wait", "stats_found">>

\* C14: a PATCH naming a load id without a record, and a DELETE naming a
\* document id without a document, are answered 404; a request answered 404
\* creates no history record, removes no document and sends no deletion
\* message.
C14_NotFoundChangesNothing ==
    [][/\ (response'.op = "PATCH" /\ response'.id \notin DOMAIN loadHistory)
            => response'.code = 404
       /\ (response'.op = "DELETE"
            /\ \A doc \in documents : doc.document_id # response'.id)
            => response'.code = 404
       /\ response'.code = 404 =>
            /\ loadHistory' = loadHistory
            /\ documents' = documents
            /\ deletionQueue' = deletionQueue]_vars

\* both tables hold a record and a DELETE for another id was answered 404
C14_Witness ==
    /\ response.op = "DELETE"
    /\ response.code = 404
    /\ documents # {}
    /\ DOMAIN loadHistory # {}
    /\ deletionQueue = {}

\* C16: a call of retrieve_context on a store without the vectorstore table
\* returns the sentinel string, raises nothing and runs no query; a query
\* is run, and the sentinel withheld, only when the table exists.
C16_EmptyStoreSentinel ==
    toolResult.kind # "none" =>
        /\ ~tableExists =>
                /\ toolResult.kind = "sentinel"
                /\ toolResult.output = <<"The vector store is empty.">>
                /\ ~toolResult.queried
        /\ toolResult.queried => tableExists
        /\ toolResult.kind = "sentinel" => ~tableExists

\* retrieve_context has answered with the sentinel on a store without table
C16_Witness ==
    /\ ~tableExists
    /\ toolResult.query = "q1"
    /\ toolResult.kind = "sentinel"

\* the position of the first human message after the first e messages, or
\* one past the end when there is none
FirstHumanAfter(msgs, e) ==
    LET H == {k \in (e + 1)..Len(msgs) : msgs[k] = "human"}
    IN IF H = {} THEN Len(msgs) + 1
       ELSE CHOOSE k \in H : \A j \in H : k <= j

\* C18: delete_messages leaves a history of at most MAX_MEMORY_WINDOW
\* messages as it is; of a longer one it removes the oldest
\* excess = len - MAX_MEMORY_WINDOW messages and the non-human messages that
\* directly follow them, and keeps the rest, from the first human message
\* after the excess on, in order.
C18_TrimmedSuffix ==
    trimmed =>
        LET excess == Len(messagesBefore) - window
        IN IF excess <= 0
           THEN messages = messagesBefore
           ELSE messages = SubSeq(messagesBefore,
                                  FirstHumanAfter(messagesBefore, excess),
                                  Len(messagesBefore))

\* the example: U1, A1, ..., U6 with window 10 gives the 9 messages U2 .. U6
C18_Witness ==
    /\ trimmed
    /\ window = 10
    /\ messagesBefore = <<"human", "ai", "human", "ai", "human", "ai",
                          "human", "ai", "human", "ai", "human">>
    /\ messages = <<"human", "ai", "human", "ai", "human", "ai", "human",
                    "ai", "human">>

\* C19: whenever the model is called, the history it is handed (the thread
\* after delete_messages) begins with a human message.
C19_ModelSeesHumanFirst ==
    chatPc = "model" => BeginsWithHuman(messages)

FtsSteps == {"fts_check", "fts_create", "fts_wait"}

\* C20: a run calls index_stats, create_fts_index or wait_for_index only
\* after its add_documents returned (its rows are in the table); a run
\* whose add_documents raised goes to the except branch without any of them.
C20_IndexAfterAdd ==
    [][\A m \in loadQueue :
        /\ ftsLog' # ftsLog =>
                /\ m.pc \in FtsSteps
                /\ m.raised = None
                /\ tableExists
                /\ Len(m.passed_ids) = Len(m.docs)
                /\ \A k \in DOMAIN m.passed_ids :
                        \E j \in DOMAIN rows : rows[j].id = m.passed_ids[k]
        /\ m.raised = "add_documents" =>
                m.pc \in {"mark_failed", "returning", "done"}]_vars

\* a run whose add_documents raised has ended and no index call was made
C20_Witness ==
    \E m \in loadQueue :
        /\ m.pc = "done"
        /\ m.raised = "add_documents"
        /\ m.docs # <<>>
        /\ ftsLog = <<>>

CreateCalls == {i \in 1..Len(ftsLog) : ftsLog[i] = "create"}

\* the rows a run stores for its url when it runs alone
RowsAlone(m) ==
    NewRows(add_extra_metadata(
                SplitDocuments(m.url, NumChunks(m.url), HasTitle(m.url)),
                m.url),
            ChunkIds(m.load_id, NumChunks(m.url)))

\* C22: two ingestions with different load ids do not interfere: across
\* both, create_fts_index is called at most once, and a run that has
\* completed finds in the table the chunk records it stores when it runs
\* alone (its ids, with the content of its own url).
C22_NoInterference ==
    /\ Cardinality(CreateCalls) <= 1
    /\ \A m \in loadQueue :
        (m.pc = "done" /\ m.raised = None) =>
            \A k \in DOMAIN RowsAlone(m) :
                \E j \in DOMAIN rows : rows[j] = RowsAlone(m)[k]

\* C23: in every load-history record, error_details is set only if the
\* status is failed, completed_at only if the status is completed, and
\* started_at only if the status is not pending.
C23_FieldsMatchStatus ==
    \A a \in DOMAIN loadHistory :
        /\ loadHistory[a].error_details # None =>
                loadHistory[a].status = "failed"
        /\ loadHistory[a].completed_at # None =>
                loadHistory[a].status = "completed"
        /\ loadHistory[a].started_at # None =>
                loadHistory[a].status # "pending"

\* C24: a run whose fetch, chunking, insert and index steps all succeeded
\* (it has sent completed), an empty chunk list included, does not end with
\* an exception out of load_document, and once it has ended a Document is
\* registered for it whose title is the first chunk's title metadata, or
\* "Unknown" when that chunk has none.
C24_SuccessRegistersDocument ==
    \A m \in loadQueue :
        /\ m.outcome # "IndexError"
        /\ (m.pc = "done" /\ m.raised = None) =>
                /\ m.outcome = "returned"
                /\ m.sent = <<"in_progress", "completed">>
                /\ \E doc \in documents :
                        /\ doc.url = m.url
                        /\ doc.title = IF HasTitle(m.url) THEN "T"
                                       ELSE "Unknown"

Passages == [k \in DOMAIN retrieved.hits |-> format_doc(retrieved.hits[k])]

Contains(s, sep) == \E i \in 1..Len(s) : MatchAt(s, sep, i)

EndsWith(s, t) ==
    Len(s) >= Len(t) /\ SubSeq(s, Len(s) - Len(t) + 1, Len(s)) = t

\* C25 as stated: for every list of hits, splitting the tool output on the
\* delimiter gives exactly the formatted passages, one per hit, in order.
C25_SplitRecovers ==
    retrieved.pc = "split" => retrieved.contexts = Passages

\* C25: for every non-empty list of hits none of whose formatted passages
\* contains the delimiter or ends with "\n--", splitting the tool output on
\* the delimiter gives exactly the formatted passages, one per hit, in order.
C25_SplitRecoversClean ==
    (/\ retrieved.pc = "split"
     /\ retrieved.hits # <<>>
     /\ \A k \in DOMAIN Passages :
            /\ ~Contains(Passages[k], Delimiter)
            /\ ~EndsWith(Passages[k], <<"\n", "-", "-">>))
        => retrieved.contexts = Passages

\* two hits whose texts hold dashes and newlines have been recovered
C25_Witness ==
    /\ retrieved.pc = "split"
    /\ retrieved.hits = <<<<"-", "-", "\n">>, <<"\n", "-">>>>
    /\ Len(retrieved.contexts) = 2
    /\ retrieved.contexts = Passages

IsSuffix(s, t) ==
    Len(s) <= Len(t) /\ SubSeq(t, Len(t) - Len(s) + 1, Len(t)) = s

\* C26: restoring a conversation with setup_agent raises no error, whatever
\* the conversation, and installs a history that is a suffix of the
\* conversation, has at most MAX_MEMORY_WINDOW messages, and is empty or
\* begins with a user message.
C26_ResumeInstallsSuffix ==
    [][chatPc = "resume" =>
        /\ chatPc' # "IndexError"
        /\ IsSuffix(messages', messagesBefore)
        /\ Len(messages') <= MAX_MEMORY_WINDOW
        /\ messages' = <<>> \/ BeginsWithHuman(messages')]_vars

\* C27: for every load request accepted by POST /documents/load (its
\* message sent and its record written), once the worker's run for it has
\* finished the stored status is completed or failed.
C27_OutcomeVisible ==
    \A a \in DOMAIN loadHistory :
        (\E m \in loadQueue : m.load_id = a /\ m.pc = "done") =>
            loadHistory[a].status \in Terminal

\* C28: whenever retrieve_context finds the vectorstore table and runs the
\* hybrid query, the full-text index exists at that moment.
C28_QueryFindsIndex ==
    [][(toolResult' # toolResult /\ toolResult'.queried) =>
            ftsIndex # "absent"]_vars

HasHuman(msgs) == \E i \in DOMAIN msgs : msgs[i] = "human"

\* the messages from the last human message on
FromLastHuman(msgs) ==
    LET H == {i \in DOMAIN msgs : msgs[i] = "human"}
        last == CHOOSE i \in H : \A j \in H : j <= i
    IN SubSeq(msgs, last, Len(msgs))

\* C29: delete_messages never removes the most recent user message: when
\* the history it is run on holds a user message, the history handed to the
\* model still holds that message and all that follows it.
C29_LatestHumanKept ==
    (chatPc = "model" /\ HasHuman(messagesBefore)) =>
        /\ messages # <<>>
        /\ IsSuffix(FromLastHuman(messagesBefore), messages)

\* C30: the answer holds exactly the model-node tokens that lie outside a
\* <thinking> ... </thinking> block, in order; the handler is in the
\* thinking state exactly while the stream is inside a block; tool-node
\* tokens are never in the answer.
C30_AnswerIsOutsideTokens ==
    stream.pc # "none" =>
        /\ stream.answer = stream.expected
        /\ stream.in_thinking_step = stream.inside
====
